---- MODULE Spec2Model ----
(***************************************************************************)
(* Model of shared/src/types/rpc.rs: the query path codec (Display and     *)
(* FromStr for Path) and the transaction result resolver                   *)
(* (TxResponse::find_tx).                                                  *)
(*                                                                         *)
(* Strings are sequences of one-character strings so that case folding,    *)
(* splitting and number parsing are computed character by character.       *)
(***************************************************************************)
EXTENDS Integers, Sequences, FiniteSets, TLC

\* ------------------------------------------------------------------------
\* Bounds
\* ------------------------------------------------------------------------
MaxKeyLen == 3
MaxLen == 2

\* ------------------------------------------------------------------------
\* String constants (rpc.rs lines 28-34)
\* ------------------------------------------------------------------------
DRY_RUN_TX_PATH == <<"d","r","y","_","r","u","n","_","t","x">>
EPOCH_PATH == <<"e","p","o","c","h">>
VALUE_PREFIX == <<"v","a","l","u","e">>
PREFIX_PREFIX == <<"p","r","e","f","i","x">>
HAS_KEY_PREFIX == <<"h","a","s","_","k","e","y">>
ACCEPTED == <<"a","c","c","e","p","t","e","d">>
APPLIED == <<"a","p","p","l","i","e","d">>

\* ------------------------------------------------------------------------
\* str helpers used by from_str
\* ------------------------------------------------------------------------
UpperLetters == <<"A","B","C","D","E","F","G","H","I","J","K","L","M",
                  "N","O","P","Q","R","S","T","U","V","W","X","Y","Z">>
LowerLetters == <<"a","b","c","d","e","f","g","h","i","j","k","l","m",
                  "n","o","p","q","r","s","t","u","v","w","x","y","z">>

char_to_lowercase(c) ==
    IF \E i \in 1..26 : UpperLetters[i] = c
    THEN LowerLetters[CHOOSE i \in 1..26 : UpperLetters[i] = c]
    ELSE c

char_to_uppercase(c) ==
    IF \E i \in 1..26 : LowerLetters[i] = c
    THEN UpperLetters[CHOOSE i \in 1..26 : LowerLetters[i] = c]
    ELSE c

\* str::to_lowercase
to_lowercase(str) == [i \in 1..Len(str) |-> char_to_lowercase(str[i])]

\* str::to_uppercase, used only to build inputs
to_uppercase(str) == [i \in 1..Len(str) |-> char_to_uppercase(str[i])]

\* first letter upper case, used only to build inputs
capitalize(str) ==
    [i \in 1..Len(str) |-> IF i = 1 THEN char_to_uppercase(str[i]) ELSE str[i]]

HasSlash(str) == \E i \in 1..Len(str) : str[i] = "/"

FirstSlash(str) == CHOOSE i \in 1..Len(str) :
                      /\ str[i] = "/"
                      /\ \A j \in 1..(i-1) : str[j] # "/"

\* str::split_once("/"): <<>> is None, <<left, right>> is Some((left, right))
split_once(str) ==
    IF HasSlash(str)
    THEN <<SubSeq(str, 1, FirstSlash(str) - 1),
           SubSeq(str, FirstSlash(str) + 1, Len(str))>>
    ELSE <<>>

\* ------------------------------------------------------------------------
\* storage::Key (external collaborator): parse splits the string on '/'
\* into segments, to_string joins the segments with '/'.  A segment holding
\* '!' is not a key segment.
\* ------------------------------------------------------------------------
RECURSIVE KeySplit(_)
KeySplit(str) ==
    IF HasSlash(str)
    THEN <<SubSeq(str, 1, FirstSlash(str) - 1)>>
            \o KeySplit(SubSeq(str, FirstSlash(str) + 1, Len(str)))
    ELSE <<str>>

RECURSIVE KeyJoin(_)
KeyJoin(segs) ==
    IF Len(segs) = 0 THEN <<>>
    ELSE IF Len(segs) = 1 THEN segs[1]
    ELSE segs[1] \o <<"/">> \o KeyJoin(Tail(segs))

NoKey == <<>>
NoStr == <<"<none>">>

KeyParse(str) ==
    IF \E i \in 1..Len(str) : str[i] = "!"
    THEN [ok |-> FALSE, key |-> NoKey, err |-> <<"InvalidKeySeg">> \o str]
    ELSE [ok |-> TRUE, key |-> KeySplit(str), err |-> NoStr]

KeyToString(key) == KeyJoin(key)

\* ------------------------------------------------------------------------
\* Path (rpc.rs lines 245-256) and its codec
\* ------------------------------------------------------------------------
KeyedVariants == {"Value", "Prefix", "HasKey"}

MkPath(v, k) == [variant |-> v, key |-> k]

\* impl Display for Path
PathToString(p) ==
    CASE p.variant = "DryRunTx" -> DRY_RUN_TX_PATH
      [] p.variant = "Epoch" -> EPOCH_PATH
      [] p.variant = "Value" -> VALUE_PREFIX \o <<"/">> \o KeyToString(p.key)
      [] p.variant = "Prefix" -> PREFIX_PREFIX \o <<"/">> \o KeyToString(p.key)
      [] p.variant = "HasKey" -> HAS_KEY_PREFIX \o <<"/">> \o KeyToString(p.key)

PathOk(v, k) == [ok |-> TRUE, variant |-> v, key |-> k, err |-> "", payload |-> NoStr]
PathErr(e, pl) == [ok |-> FALSE, variant |-> "", key |-> NoKey, err |-> e, payload |-> pl]

\* the Key::parse(..).map_err(InvalidStorageKey) arm shared by the three
\* keyed variants
KeyedArm(v, storage_key) ==
    IF KeyParse(storage_key).ok
    THEN PathOk(v, KeyParse(storage_key).key)
    ELSE PathErr("InvalidStorageKey", KeyParse(storage_key).err)

SegmentVariant(seg) ==
    CASE seg = VALUE_PREFIX -> "Value"
      [] seg = PREFIX_PREFIX -> "Prefix"
      [] seg = HAS_KEY_PREFIX -> "HasKey"
      [] OTHER -> ""

\* the string handed to storage::Key::parse by from_str, NoStr when the
\* key parser is not called
StorageKeyArg(s0) ==
    LET path == to_lowercase(s0) IN
    IF path = DRY_RUN_TX_PATH \/ path = EPOCH_PATH THEN NoStr
    ELSE IF split_once(path) = <<>> THEN NoStr
    ELSE IF SegmentVariant(split_once(path)[1]) = "" THEN NoStr
    ELSE split_once(path)[2]

\* from_str that matches on the input without folding it
from_str_no_fold(s0) ==
    LET path == s0 IN
    IF path = DRY_RUN_TX_PATH THEN PathOk("DryRunTx", NoKey)
    ELSE IF path = EPOCH_PATH THEN PathOk("Epoch", NoKey)
    ELSE IF split_once(path) # <<>> /\ SegmentVariant(split_once(path)[1]) # ""
         THEN KeyedArm(SegmentVariant(split_once(path)[1]), split_once(path)[2])
         ELSE PathErr("InvalidPath", s0)

\* from_str that reports the folded string in InvalidPath
from_str_folded_err(s0) ==
    LET path == to_lowercase(s0) IN
    IF path = DRY_RUN_TX_PATH THEN PathOk("DryRunTx", NoKey)
    ELSE IF path = EPOCH_PATH THEN PathOk("Epoch", NoKey)
    ELSE IF split_once(path) # <<>> /\ SegmentVariant(split_once(path)[1]) # ""
         THEN KeyedArm(SegmentVariant(split_once(path)[1]), split_once(path)[2])
         ELSE PathErr("InvalidPath", path)

\* impl FromStr for Path
from_str(s0) ==
    LET path == to_lowercase(s0) IN
    IF path = DRY_RUN_TX_PATH THEN PathOk("DryRunTx", NoKey)
    ELSE IF path = EPOCH_PATH THEN PathOk("Epoch", NoKey)
    ELSE IF split_once(path) # <<>> /\ SegmentVariant(split_once(path)[1]) # ""
         THEN KeyedArm(SegmentVariant(split_once(path)[1]), StorageKeyArg(s0))
         ELSE PathErr("InvalidPath", s0)

\* ------------------------------------------------------------------------
\* TendermintEventType (rpc.rs lines 38-75)
\* ------------------------------------------------------------------------
EventTypes == {"Accepted", "Applied"}

\* impl Display for TendermintEventType
EventToString(e) == IF e = "Accepted" THEN ACCEPTED ELSE APPLIED

\* try_from that compiles the Accepted arm in whatever the feature flag is
try_from_no_cfg(value, abci_feature) ==
    IF value = ACCEPTED
    THEN [ok |-> TRUE, val |-> "Accepted"]
    ELSE IF value = APPLIED
    THEN [ok |-> TRUE, val |-> "Applied"]
    ELSE [ok |-> FALSE, val |-> ""]

\* impl TryFrom<&str> for TendermintEventType; abci_feature is the
\* cfg(feature = "ABCI") build flag
try_from(value, abci_feature) ==
    IF value = ACCEPTED /\ ~abci_feature
    THEN [ok |-> TRUE, val |-> "Accepted"]
    ELSE IF value = APPLIED
    THEN [ok |-> TRUE, val |-> "Applied"]
    ELSE [ok |-> FALSE, val |-> ""]

\* ------------------------------------------------------------------------
\* JSON values and the jsonpath selector
\* ------------------------------------------------------------------------
JString(str) == [t |-> "String", s |-> str]
JNumber == [t |-> "Number", s |-> <<"0">>]

Present(a) == [present |-> TRUE, arr |-> a]
Absent == [present |-> FALSE, arr |-> <<>>]

RequiredFields == <<"info", "code", "gas_used", "height">>
Fields == {"hash", "info", "height", "code", "gas_used", "initialized_accounts"}

\* selector that reads every field but the hash at index 0
SelectRowZero(d, cat, field, idx) ==
    IF field = "hash"
    THEN IF d[cat][field].present /\ idx < Len(d[cat][field].arr)
         THEN <<d[cat][field].arr[idx + 1]>>
         ELSE <<>>
    ELSE IF d[cat][field].present /\ 0 < Len(d[cat][field].arr)
         THEN <<d[cat][field].arr[1]>>
         ELSE <<>>

\* selector("$.events.['<cat>.<field>'][<idx>]"): the matched values, none
\* when the field is missing or the index is past the end of the array
Select(d, cat, field, idx) ==
    IF d[cat][field].present /\ idx < Len(d[cat][field].arr)
    THEN <<d[cat][field].arr[idx + 1]>>
    ELSE <<>>

\* ------------------------------------------------------------------------
\* Scalar conversions: u64::from_str, u8::from_str
\* ------------------------------------------------------------------------
DigitChars == <<"0","1","2","3","4","5","6","7","8","9">>
IsDigit(c) == \E i \in 1..10 : DigitChars[i] = c
DigitVal(c) == (CHOOSE i \in 1..10 : DigitChars[i] = c) - 1

U64_MAX_DIGITS == <<"1","8","4","4","6","7","4","4","0","7",
                    "3","7","0","9","5","5","1","6","1","5">>
U8_MAX_DIGITS == <<"2","5","5">>

RECURSIVE StripZeros(_)
StripZeros(ds) ==
    IF Len(ds) > 1 /\ ds[1] = "0" THEN StripZeros(Tail(ds)) ELSE ds

DigitsGreater(a, b) ==
    \/ Len(a) > Len(b)
    \/ /\ Len(a) = Len(b)
       /\ \E i \in 1..Len(a) :
             /\ DigitVal(a[i]) > DigitVal(b[i])
             /\ \A j \in 1..(i-1) : a[j] = b[j]

RECURSIVE DigitsValue(_)
DigitsValue(ds) ==
    IF Len(ds) = 0 THEN 0
    ELSE DigitsValue(SubSeq(ds, 1, Len(ds) - 1)) * 10 + DigitVal(ds[Len(ds)])

\* the digits of an unsigned literal after an optional leading '+'
UnsignedDigits(str) ==
    IF Len(str) > 0 /\ str[1] = "+" THEN Tail(str) ELSE str

ValidDigits(str) ==
    /\ Len(UnsignedDigits(str)) > 0
    /\ \A i \in 1..Len(UnsignedDigits(str)) : IsDigit(UnsignedDigits(str)[i])

\* <unsigned>::from_str with the type's maximum given by its digits
ParseUnsigned(str, max_digits) ==
    IF ~ValidDigits(str)
    THEN [ok |-> FALSE, val |-> 0]
    ELSE IF DigitsGreater(StripZeros(UnsignedDigits(str)), max_digits)
    THEN [ok |-> FALSE, val |-> 0]
    ELSE [ok |-> TRUE, val |-> DigitsValue(StripZeros(UnsignedDigits(str)))]

ParseU64(str) == ParseUnsigned(str, U64_MAX_DIGITS)

\* u8 parse that truncates to the low byte instead of failing on overflow
ParseU8Truncating(str) ==
    IF ~ValidDigits(str)
    THEN [ok |-> FALSE, val |-> 0]
    ELSE IF Len(StripZeros(UnsignedDigits(str))) > 3
    THEN [ok |-> FALSE, val |-> 0]
    ELSE [ok |-> TRUE, val |-> DigitsValue(StripZeros(UnsignedDigits(str))) % 256]

ParseU8(str) == ParseUnsigned(str, U8_MAX_DIGITS)

\* ------------------------------------------------------------------------
\* Hash::try_from(&[u8]) (external collaborator): the bytes of a hex string
\* ------------------------------------------------------------------------
HexChars == {"0","1","2","3","4","5","6","7","8","9","a","b","c","d","e","f"}

HashTryFrom(str) ==
    IF /\ Len(str) > 0
       /\ Len(str) % 2 = 0
       /\ \A i \in 1..Len(str) : char_to_lowercase(str[i]) \in HexChars
    THEN [ok |-> TRUE, val |-> to_lowercase(str)]
    ELSE [ok |-> FALSE, val |-> <<>>]

\* ------------------------------------------------------------------------
\* initialized_accounts: serde_json::from_str::<Vec<Address>> on the text
\* held inside the outer JSON string.  The text is a sequence of tokens:
\* "[", "]", "," and quoted strings.
\* ------------------------------------------------------------------------
Addresses == {"addr1", "addr2", "addr3", "addr4", "addr5", "addr6"}

InnerBody(raw) == SubSeq(raw, 2, Len(raw) - 1)

InnerWellFormed(raw) ==
    /\ Len(raw) >= 2
    /\ raw[1] = "["
    /\ raw[Len(raw)] = "]"
    /\ \/ Len(InnerBody(raw)) = 0
       \/ /\ Len(InnerBody(raw)) % 2 = 1
          /\ \A i \in 1..Len(InnerBody(raw)) :
                IF i % 2 = 1 THEN InnerBody(raw)[i] \in Addresses
                             ELSE InnerBody(raw)[i] = ","

InnerElems(raw) ==
    [j \in 1..((Len(InnerBody(raw)) + 1) \div 2) |-> InnerBody(raw)[2 * j - 1]]

\* accounts decode that takes only the first address of the inner array
DecodeAccountsFirstOnly(values) ==
    IF values = <<>> THEN [ok |-> TRUE, val |-> <<>>]
    ELSE IF values[1].t # "String" THEN [ok |-> FALSE, val |-> <<>>]
    ELSE IF ~InnerWellFormed(values[1].s) THEN [ok |-> FALSE, val |-> <<>>]
    ELSE [ok |-> TRUE,
          val |-> IF Len(InnerElems(values[1].s)) = 0 THEN <<>>
                  ELSE <<InnerElems(values[1].s)[1]>>]

\* the match on initialized_accounts (rpc.rs lines 408-424); a failure is
\* a serde_json::Error
DecodeAccounts(values) ==
    IF values = <<>> THEN [ok |-> TRUE, val |-> <<>>]
    ELSE IF values[1].t # "String" THEN [ok |-> FALSE, val |-> <<>>]
    ELSE IF ~InnerWellFormed(values[1].s) THEN [ok |-> FALSE, val |-> <<>>]
    ELSE [ok |-> TRUE, val |-> InnerElems(values[1].s)]

\* ------------------------------------------------------------------------
\* Outcomes of find_tx
\* ------------------------------------------------------------------------
NoResp == [info |-> <<>>, height |-> 0, hash |-> <<>>, code |-> 0,
           gas_used |-> 0, initialized_accounts |-> <<>>]

Running == [kind |-> "none", err |-> "", resp |-> NoResp]
Panic == [kind |-> "panic", err |-> "", resp |-> NoResp]
QErr(e) == [kind |-> "err", err |-> e, resp |-> NoResp]
QOk(r) == [kind |-> "ok", err |-> "", resp |-> r]

\* first of the required fields, in the order of lines 402-405, whose
\* selection is empty or not a JSON string; 0 when there is none
FirstBadField(selected) ==
    IF \E k \in 1..4 : \/ selected[RequiredFields[k]] = <<>>
                       \/ selected[RequiredFields[k]][1].t # "String"
    THEN CHOOSE k \in 1..4 :
            /\ \/ selected[RequiredFields[k]] = <<>>
               \/ selected[RequiredFields[k]][1].t # "String"
            /\ \A j \in 1..(k-1) :
                  /\ selected[RequiredFields[j]] # <<>>
                  /\ selected[RequiredFields[j]][1].t = "String"
    ELSE 0

\* the struct expression of lines 426-433, fields evaluated in order
BuildResponse(info, height_str, hash_str, code_str, gas_str, accts) ==
    IF ~ParseU64(height_str).ok THEN QErr("ConversionError")
    ELSE IF ~HashTryFrom(hash_str).ok THEN QErr("FromHexError")
    ELSE IF ~ParseU8(code_str).ok THEN QErr("ConversionError")
    ELSE IF ~ParseU64(gas_str).ok THEN QErr("ConversionError")
    ELSE QOk([info |-> info,
              height |-> ParseU64(height_str).val,
              hash |-> HashTryFrom(hash_str).val,
              code |-> ParseU8(code_str).val,
              gas_used |-> ParseU64(gas_str).val,
              initialized_accounts |-> accts])

\* ------------------------------------------------------------------------
\* State
\* ------------------------------------------------------------------------
VARIABLES
    pc,          \* position of the path codec call: encode, decode, done
    pathIn,      \* the Path being encoded (round trip), NoPath otherwise
    s,           \* the string given to from_str
    s2,          \* s with another letter case in its literal segment
    r,           \* from_str(s)
    r2,          \* from_str(s2)
    keyArg,      \* the string from_str(s) handed to storage::Key::parse
    fpc,         \* position inside find_tx
    json_response, \* find_tx argument: events arrays per category and field
    abci,        \* cfg(feature = "ABCI")
    event_type,  \* find_tx argument: the category selector
    tx_hash,     \* find_tx argument: the target hash string
    evt_key,     \* find_tx local
    index,       \* find_tx local
    hash,        \* find_tx local: the matched JSON value
    selected,    \* find_tx locals info, height, code, gas_used,
                 \* initialized_accounts as returned by the selector
    accts,       \* find_tx local: decoded initialized_accounts
    reads,       \* selector calls made so far, in order
    outcome      \* what find_tx returned, or that it panicked

pathVars == <<pc, pathIn, s, s2, r, r2, keyArg>>
findVars == <<fpc, json_response, abci, event_type, tx_hash, evt_key, index,
              hash, selected, accts, reads, outcome>>
vars == <<pc, pathIn, s, s2, r, r2, keyArg, fpc, json_response, abci,
          event_type, tx_hash, evt_key, index, hash, selected, accts, reads,
          outcome>>

\* ------------------------------------------------------------------------
\* Inputs of the path codec
\* ------------------------------------------------------------------------
KeyChars == {"k", "K", "/", "!"}
KeyStrings == UNION {[1..n -> KeyChars] : n \in 0..MaxKeyLen}

BaseSegments ==
    {DRY_RUN_TX_PATH, EPOCH_PATH, VALUE_PREFIX, PREFIX_PREFIX, HAS_KEY_PREFIX,
     <<"u","n","k","n","o","w","n","_","s","e","g","m","e","n","t">>,
     <<"v","a","l","u","e","_","n","o","_","s","l","a","s","h">>,
     <<>>}
Segments == UNION {{b, to_uppercase(b), capitalize(b)} : b \in BaseSegments}

Tails == {<<>>} \cup {<<"/">> \o k : k \in KeyStrings}

NoPath == MkPath("", NoKey)
Paths == {MkPath("DryRunTx", NoKey), MkPath("Epoch", NoKey)}
            \cup {MkPath(v, KeyParse(k).key) :
                     v \in KeyedVariants, k \in {x \in KeyStrings : KeyParse(x).ok}}

Pending == PathErr("pending", NoStr)

PathIdle ==
    /\ pc = "idle" /\ pathIn = NoPath /\ s = NoStr /\ s2 = NoStr
    /\ r = Pending /\ r2 = Pending /\ keyArg = NoStr

InitDecode ==
    /\ pc = "decode"
    /\ pathIn = NoPath
    /\ \E seg \in Segments, seg2 \in Segments, tail \in Tails :
          /\ to_lowercase(seg) = to_lowercase(seg2)
          /\ s = seg \o tail
          /\ s2 = seg2 \o tail
    /\ r = Pending /\ r2 = Pending /\ keyArg = NoStr

InitRoundTrip ==
    /\ pc = "encode"
    /\ pathIn \in Paths
    /\ s = NoStr /\ s2 = NoStr
    /\ r = Pending /\ r2 = Pending /\ keyArg = NoStr

\* ------------------------------------------------------------------------
\* Inputs of find_tx
\* ------------------------------------------------------------------------
Categories == {ACCEPTED, APPLIED}

H1 == <<"a","1">>
H2 == <<"b","2">>
HBad == <<"z","z">>

AddressOf == <<"addr1", "addr2", "addr3", "addr4", "addr5", "addr6">>

\* text of a JSON array of address strings
RECURSIVE EncodeAccounts(_)
EncodeAccounts(addrs) ==
    IF Len(addrs) = 0 THEN <<"[", "]">>
    ELSE IF Len(addrs) = 1 THEN <<"[", addrs[1], "]">>
    ELSE <<"[", addrs[1], ",">> \o Tail(EncodeAccounts(Tail(addrs)))

\* the value a well-formed event log holds in row j (1-based) of a field
Canon(field, j) ==
    CASE field = "info" -> JString(<<"i", DigitChars[j + 1]>>)
      [] field = "height" -> JString(<<DigitChars[j + 1]>>)
      [] field = "code" -> JString(<<DigitChars[j + 1]>>)
      [] field = "gas_used" -> JString(<<DigitChars[j + 1], "0">>)
      [] field = "initialized_accounts" ->
            JString(EncodeAccounts(<<AddressOf[j]>>))

CanonColumn(field, n) == Present([j \in 1..n |-> Canon(field, j)])

\* the arrays of the category that is not varied
DecoyColumns ==
    [f \in Fields |->
        CASE f = "hash" ->
                Present([j \in 1..MaxLen |-> JString(IF j % 2 = 1 THEN H1 ELSE H2)])
          [] f = "info" -> Present([j \in 1..MaxLen |-> JString(<<"d", DigitChars[j + 1]>>)])
          [] f = "height" -> Present([j \in 1..MaxLen |-> JString(<<"9", DigitChars[j + 1]>>)])
          [] f = "code" -> Present([j \in 1..MaxLen |-> JString(<<"9", DigitChars[j + 1]>>)])
          [] f = "gas_used" -> Present([j \in 1..MaxLen |-> JString(<<"9", DigitChars[j + 1], "0">>)])
          [] f = "initialized_accounts" ->
                Present([j \in 1..MaxLen |-> JString(EncodeAccounts(<<"addr6">>))])]

MkDoc(focus, cols) == [c \in Categories |-> IF c = focus THEN cols ELSE DecoyColumns]

MkCols(h, i, ht, c, g, a) ==
    [f \in Fields |->
        CASE f = "hash" -> h [] f = "info" -> i [] f = "height" -> ht
          [] f = "code" -> c [] f = "gas_used" -> g
          [] f = "initialized_accounts" -> a]

\* a column with the value of row row replaced by cell
WithCell(col, row, cell) ==
    IF col.present /\ row <= Len(col.arr)
    THEN Present([j \in 1..Len(col.arr) |-> IF j = row THEN cell ELSE col.arr[j]])
    ELSE col

HashColumns(vals, lens) ==
    UNION {{Present(a) : a \in [1..n -> {JString(v) : v \in vals}]} : n \in lens}

Prefixes(field) == {Absent} \cup {CanonColumn(field, n) : n \in 0..MaxLen}

U64Overflow == <<"1","8","4","4","6","7","4","4","0","7",
                 "3","7","0","9","5","5","1","6","1","6">>

InfoCells(j) == {Canon("info", j), JNumber}
HeightCells(j) == {Canon("height", j), JString(<<"x">>), JString(U64Overflow),
                   JString(<<"-","1">>)}
CodeCells(j) == {Canon("code", j), JString(<<"2","5","5">>),
                 JString(<<"2","5","6">>), JString(<<"-","1">>),
                 JString(<<"n","o","t","_","a","_","n","u","m","b","e","r">>)}
GasCells(j) == {Canon("gas_used", j), JString(<<"+","7">>), JString(<<"x">>),
                JString(<<>>)}
AccountCells(j) ==
    {Canon("initialized_accounts", j),
     JString(EncodeAccounts(<<>>)),
     JString(EncodeAccounts(<<"addr1", "addr2">>)),
     JString(EncodeAccounts(<<"addr2", "addr1">>)),
     JString(<<"addr1">>),
     JString(<<"[", "not-an-address", "]">>),
     JNumber}

BOGUS == <<"b","o","g","u","s">>

FindLocalsInit ==
    /\ fpc = "start"
    /\ evt_key = ""
    /\ index = 0
    /\ hash = JNumber
    /\ selected = [f \in Fields \ {"hash"} |-> <<>>]
    /\ accts = <<>>
    /\ reads = <<>>
    /\ outcome = Running

\* event logs whose arrays have different lengths or are missing
InitRagged ==
    /\ \E cfg \in {<<APPLIED, TRUE>>, <<ACCEPTED, FALSE>>} :
          /\ event_type = cfg[1]
          /\ abci = cfg[2]
    /\ tx_hash \in {H1, H2}
    /\ \E h \in {Absent} \cup HashColumns({H1, H2}, 0..MaxLen),
          i \in Prefixes("info"), ht \in Prefixes("height"),
          c \in Prefixes("code"), g \in Prefixes("gas_used") :
          json_response = MkDoc(event_type,
              MkCols(h, i, ht, c, g, CanonColumn("initialized_accounts", MaxLen)))
    /\ FindLocalsInit

\* aligned event logs with one row holding arbitrary scalar strings
InitScalars ==
    /\ event_type = APPLIED
    /\ abci = TRUE
    /\ tx_hash \in {H1, H2, HBad}
    /\ \E h \in HashColumns({H1, H2, HBad}, {MaxLen}), row \in 1..MaxLen :
       \E i \in InfoCells(row), ht \in HeightCells(row),
          c \in CodeCells(row), g \in GasCells(row) :
          json_response = MkDoc(APPLIED,
              MkCols(h,
                     WithCell(CanonColumn("info", MaxLen), row, i),
                     WithCell(CanonColumn("height", MaxLen), row, ht),
                     WithCell(CanonColumn("code", MaxLen), row, c),
                     WithCell(CanonColumn("gas_used", MaxLen), row, g),
                     CanonColumn("initialized_accounts", MaxLen)))
    /\ FindLocalsInit

\* any selector under either build, with the optional accounts array
\* missing, short, or holding an arbitrary value in one row
InitAccounts ==
    /\ event_type \in {APPLIED, ACCEPTED, BOGUS, to_uppercase(APPLIED), <<>>}
    /\ abci \in BOOLEAN
    /\ tx_hash \in {H1, H2}
    /\ \E h \in HashColumns({H1, H2}, {MaxLen}), row \in 1..MaxLen,
          a \in Prefixes("initialized_accounts") :
       \E cell \in AccountCells(row) :
          json_response =
              MkDoc(IF event_type = ACCEPTED THEN ACCEPTED ELSE APPLIED,
                    MkCols(h, CanonColumn("info", MaxLen),
                           CanonColumn("height", MaxLen),
                           CanonColumn("code", MaxLen),
                           CanonColumn("gas_used", MaxLen),
                           WithCell(a, row, cell)))
    /\ FindLocalsInit

FindIdle ==
    /\ fpc = "idle"
    /\ json_response = [c \in Categories |-> [f \in Fields |-> Absent]]
    /\ abci = FALSE /\ event_type = <<>> /\ tx_hash = <<>>
    /\ evt_key = "" /\ index = 0 /\ hash = JNumber
    /\ selected = [f \in Fields \ {"hash"} |-> <<>>]
    /\ accts = <<>> /\ reads = <<>> /\ outcome = Running

InitPath == (InitDecode \/ InitRoundTrip) /\ FindIdle
InitFind == (InitRagged \/ InitScalars \/ InitAccounts) /\ PathIdle

\* ------------------------------------------------------------------------
\* Path codec steps
\* ------------------------------------------------------------------------
\* Path::to_string (impl Display for Path)
Encode ==
    /\ pc = "encode"
    /\ s' = PathToString(pathIn)
    /\ s2' = PathToString(pathIn)
    /\ pc' = "decode"
    /\ UNCHANGED <<pathIn, r, r2, keyArg>>
    /\ UNCHANGED findVars

\* Path::from_str on both strings
Decode ==
    /\ pc = "decode"
    /\ r' = from_str(s)
    /\ r2' = from_str(s2)
    /\ keyArg' = StorageKeyArg(s)
    /\ pc' = "done"
    /\ UNCHANGED <<pathIn, s, s2>>
    /\ UNCHANGED findVars

\* ------------------------------------------------------------------------
\* find_tx steps
\* ------------------------------------------------------------------------
ReadOf(field, idx) == [cat |-> EventToString(evt_key), field |-> field, idx |-> idx]

\* line 375: TendermintEventType::try_from(event_type.as_ref())?
ResolveEvent ==
    /\ fpc = "start"
    /\ IF try_from(event_type, abci).ok
       THEN /\ evt_key' = try_from(event_type, abci).val
            /\ fpc' = "scan"
            /\ outcome' = outcome
       ELSE /\ evt_key' = evt_key
            /\ fpc' = "done"
            /\ outcome' = QErr("UnsupportedTendermintEvent")
    /\ UNCHANGED <<json_response, abci, event_type, tx_hash, index, hash,
                   selected, accts, reads>>
    /\ UNCHANGED pathVars

\* lines 378-387: one iteration of the loop looking for the hash
ScanStep ==
    /\ fpc = "scan"
    /\ reads' = Append(reads, ReadOf("hash", index))
    /\ LET found == Select(json_response, EventToString(evt_key), "hash", index) IN
       IF found = <<>>
       THEN \* hash[0] on an empty Vec
            /\ outcome' = Panic
            /\ fpc' = "done"
            /\ UNCHANGED <<index, hash>>
       ELSE IF found[1] = JString(tx_hash)
       THEN /\ hash' = found[1]
            /\ fpc' = "select"
            /\ UNCHANGED <<index, outcome>>
       ELSE /\ index' = index + 1
            /\ UNCHANGED <<hash, fpc, outcome>>
    /\ UNCHANGED <<json_response, abci, event_type, tx_hash, evt_key, selected,
                   accts>>
    /\ UNCHANGED pathVars

\* lines 389-400: the five selector calls at the matched index
SelectFields ==
    /\ fpc = "select"
    /\ selected' = [f \in Fields \ {"hash"} |->
                      Select(json_response, EventToString(evt_key), f, index)]
    /\ reads' = reads \o <<ReadOf("info", index), ReadOf("height", index),
                           ReadOf("code", index), ReadOf("gas_used", index),
                           ReadOf("initialized_accounts", index)>>
    /\ fpc' = "strings"
    /\ UNCHANGED <<json_response, abci, event_type, tx_hash, evt_key, index,
                   hash, accts, outcome>>
    /\ UNCHANGED pathVars

\* lines 402-406: info[0], code[0], gas_used[0], height[0] and from_value
DecodeStrings ==
    /\ fpc = "strings"
    /\ IF FirstBadField(selected) = 0
       THEN /\ fpc' = "accounts"
            /\ outcome' = outcome
       ELSE /\ fpc' = "done"
            /\ outcome' =
                 IF selected[RequiredFields[FirstBadField(selected)]] = <<>>
                 THEN Panic
                 ELSE QErr("SerdeError")
    /\ UNCHANGED <<json_response, abci, event_type, tx_hash, evt_key, index,
                   hash, selected, accts, reads>>
    /\ UNCHANGED pathVars

\* lines 408-424
DecodeAccountsStep ==
    /\ fpc = "accounts"
    /\ IF DecodeAccounts(selected["initialized_accounts"]).ok
       THEN /\ accts' = DecodeAccounts(selected["initialized_accounts"]).val
            /\ fpc' = "build"
            /\ outcome' = outcome
       ELSE /\ accts' = accts
            /\ fpc' = "done"
            /\ outcome' = QErr("SerdeError")
    /\ UNCHANGED <<json_response, abci, event_type, tx_hash, evt_key, index,
                   hash, selected, reads>>
    /\ UNCHANGED pathVars

\* lines 426-433
Build ==
    /\ fpc = "build"
    /\ outcome' = BuildResponse(selected["info"][1].s,
                                selected["height"][1].s,
                                hash.s,
                                selected["code"][1].s,
                                selected["gas_used"][1].s,
                                accts)
    /\ fpc' = "done"
    /\ UNCHANGED <<json_response, abci, event_type, tx_hash, evt_key, index,
                   hash, selected, accts, reads>>
    /\ UNCHANGED pathVars

NextPath == Encode \/ Decode
NextFind == ResolveEvent \/ ScanStep \/ SelectFields \/ DecodeStrings
               \/ DecodeAccountsStep \/ Build

SpecPath == InitPath /\ [][NextPath]_vars
SpecFind == InitFind /\ [][NextFind]_vars

TypeOK ==
    /\ pc \in {"idle", "encode", "decode", "done"}
    /\ fpc \in {"idle", "start", "scan", "select", "strings", "accounts",
                "build", "done"}
    /\ outcome.kind \in {"none", "ok", "err", "panic"}
    /\ evt_key \in EventTypes \cup {""}
    /\ index \in 0..MaxLen

\* ------------------------------------------------------------------------
\* Properties of the path codec
\* ------------------------------------------------------------------------
Recognized(seg) == seg \in {VALUE_PREFIX, PREFIX_PREFIX, HAS_KEY_PREFIX}

\* C1: encoding a Path whose key round-trips through the key parser and
\* decoding the string gives back the same variant with the same key,
\* upper case characters in the key included.
C1_RoundTrip ==
    (/\ pc = "done"
     /\ pathIn # NoPath
     /\ pathIn.variant \in KeyedVariants =>
           /\ KeyParse(KeyToString(pathIn.key)).ok
           /\ KeyParse(KeyToString(pathIn.key)).key = pathIn.key)
    => r = PathOk(pathIn.variant, pathIn.key)

\* C2: two inputs that differ only in the letter case of the segment before
\* the first '/' (or of the whole string when there is none) decode to the
\* same outcome: same variant and key, or both the same kind of failure.
C2_CaseInsensitiveSegment ==
    (pc = "done" /\ pathIn = NoPath)
    => /\ r.ok = r2.ok
       /\ r.variant = r2.variant
       /\ r.key = r2.key
       /\ r.err = r2.err

C2_Witness ==
    /\ pc = "done" /\ pathIn = NoPath
    /\ s # s2
    /\ r.ok /\ r.variant = "HasKey"
    /\ Len(r.key) = 2

\* C3: for "<seg>/<rest>" with <seg> folding to value, prefix or has_key the
\* key parser receives exactly <rest>, the remainder of the original input
\* after its first '/', no character changed.
C3_KeyArgVerbatim ==
    (/\ pc = "done"
     /\ pathIn = NoPath
     /\ HasSlash(s)
     /\ Recognized(to_lowercase(split_once(s)[1])))
    => keyArg = split_once(s)[2]

\* C4: an input that folds to neither dry_run_tx nor epoch and has no '/'
\* or an unrecognized segment before its first '/' fails with InvalidPath
\* carrying the input as given; a recognized segment with a remainder the
\* key parser rejects fails with InvalidStorageKey carrying the key
\* parser's error; a result is a Path or one error, never both.
C4_RejectionByShape ==
    (pc = "done" /\ pathIn = NoPath)
    => LET folded == to_lowercase(s) IN
       /\ (/\ folded \notin {DRY_RUN_TX_PATH, EPOCH_PATH}
           /\ \/ ~HasSlash(s)
              \/ ~Recognized(split_once(folded)[1]))
          => r = PathErr("InvalidPath", s)
       /\ (/\ HasSlash(s)
           /\ Recognized(split_once(folded)[1])
           /\ ~KeyParse(split_once(folded)[2]).ok)
          => r = PathErr("InvalidStorageKey", KeyParse(split_once(folded)[2]).err)
       /\ r.ok <=> r.err = ""
       /\ r.ok <=> r.variant # ""
       /\ r.err \in {"", "InvalidPath", "InvalidStorageKey"}

C4_Witness ==
    /\ pc = "done" /\ pathIn = NoPath
    /\ HasSlash(s)
    /\ s # to_lowercase(s)
    /\ r = PathErr("InvalidPath", s)

\* ------------------------------------------------------------------------
\* Properties of find_tx
\* ------------------------------------------------------------------------
RECURSIVE ToDecimal(_)
ToDecimal(n) ==
    IF n < 10 THEN <<DigitChars[n + 1]>>
    ELSE ToDecimal(n \div 10) \o <<DigitChars[(n % 10) + 1]>>

Zeros(z) == [j \in 1..z |-> "0"]

\* the spellings u8::from_str / u64::from_str accept for n: an optional
\* '+', leading zeros, the decimal digits
Spells(str, n) ==
    \E plus \in {<<>>, <<"+">>}, z \in 0..2 : str = plus \o Zeros(z) \o ToDecimal(n)

ValidU8(str) == \E n \in 0..255 : Spells(str, n)
ValidU64(str) == \E n \in 0..99 : Spells(str, n)

Resolved == fpc # "idle" /\ evt_key # "" /\ event_type \in Categories

Column(field) == json_response[event_type][field]
HasCell(field, i) == Column(field).present /\ i < Len(Column(field).arr)
Cell(field, i) == Column(field).arr[i + 1]
StringCell(field, i) == HasCell(field, i) /\ Cell(field, i).t = "String"

Occurs == \E i \in 0..MaxLen : HasCell("hash", i) /\ Cell("hash", i) = JString(tx_hash)

MatchIndex ==
    CHOOSE i \in 0..MaxLen :
        /\ HasCell("hash", i) /\ Cell("hash", i) = JString(tx_hash)
        /\ \A j \in 0..(i - 1) : Cell("hash", j) # JString(tx_hash)

AddressLists == UNION {[1..n -> Addresses] : n \in 0..2}

AccountsWellFormed(i) ==
    \/ ~HasCell("initialized_accounts", i)
    \/ \E addrs \in AddressLists :
          Cell("initialized_accounts", i) = JString(EncodeAccounts(addrs))

RequiredWellFormed(i) ==
    /\ StringCell("info", i)
    /\ StringCell("height", i) /\ ValidU64(Cell("height", i).s)
    /\ StringCell("code", i) /\ ValidU8(Cell("code", i).s)
    /\ StringCell("gas_used", i) /\ ValidU64(Cell("gas_used", i).s)
    /\ tx_hash \in {H1, H2}

\* C5: when the target hash occurs in the hash array and the row at its
\* lowest index i is well formed, the response takes info, height, code and
\* gas_used from index i of their arrays and its hash is the target hash.
C5_PositionalCorrelation ==
    (/\ fpc = "done"
     /\ Resolved
     /\ Occurs
     /\ RequiredWellFormed(MatchIndex)
     /\ AccountsWellFormed(MatchIndex))
    => /\ outcome.kind = "ok"
       /\ index = MatchIndex
       /\ outcome.resp.info = Cell("info", MatchIndex).s
       /\ Spells(Cell("height", MatchIndex).s, outcome.resp.height)
       /\ Spells(Cell("code", MatchIndex).s, outcome.resp.code)
       /\ Spells(Cell("gas_used", MatchIndex).s, outcome.resp.gas_used)
       /\ outcome.resp.hash = tx_hash

C5_Witness ==
    /\ fpc = "done" /\ Resolved /\ Occurs
    /\ MatchIndex = 1
    /\ HasCell("hash", 0)
    /\ outcome.kind = "ok"
    /\ outcome.resp.info = <<"i", "2">>
    /\ outcome.resp.height = 2
    /\ outcome.resp.code = 2
    /\ outcome.resp.gas_used = 20

\* C6: when no element of the hash array equals the target hash (array
\* absent, empty or exhausted), find_tx returns EventNotFound or
\* BlockNotFound; it does not panic and returns no TxResponse.
C6_NotFound ==
    (fpc = "done" /\ Resolved /\ ~Occurs)
    => /\ outcome.kind = "err"
       /\ outcome.err \in {"EventNotFound", "BlockNotFound"}

\* C7: the selector resolves to Applied exactly for "applied", to Accepted
\* exactly for "accepted" with the ABCI feature off, and any other selector
\* makes find_tx fail with UnsupportedTendermintEvent before any selector
\* call on the events arrays.
C7_CategoryResolution ==
    /\ fpc = "start" => reads = <<>>
    /\ fpc \notin {"idle", "start"} =>
          /\ evt_key = "Applied" <=> event_type = APPLIED
          /\ evt_key = "Accepted" <=> (event_type = ACCEPTED /\ ~abci)
          /\ evt_key = "" =>
                /\ fpc = "done"
                /\ outcome = QErr("UnsupportedTendermintEvent")
                /\ reads = <<>>
          /\ outcome.err = "UnsupportedTendermintEvent" => evt_key = ""

C7_Witness ==
    /\ fpc = "done"
    /\ event_type = ACCEPTED /\ abci
    /\ outcome = QErr("UnsupportedTendermintEvent")
    /\ reads = <<>>
    /\ json_response[ACCEPTED]["hash"].arr[1] = JString(tx_hash)

DecodingErrors == {"ConversionError", "SerdeError", "FromHexError"}

\* C8: when the hash matches at index i and the string at index i of
\* height, code or gas_used is not a valid number of its type, find_tx
\* returns no TxResponse; it returns a decoding error, which is the integer
\* conversion error when the rest of the row is well formed.
C8_ScalarConversionFailure ==
    (/\ fpc = "done"
     /\ Resolved
     /\ Occurs
     /\ StringCell("height", MatchIndex)
     /\ StringCell("code", MatchIndex)
     /\ StringCell("gas_used", MatchIndex)
     /\ \/ ~ValidU64(Cell("height", MatchIndex).s)
        \/ ~ValidU8(Cell("code", MatchIndex).s)
        \/ ~ValidU64(Cell("gas_used", MatchIndex).s))
    => /\ outcome.kind # "ok"
       /\ outcome.resp = NoResp
       /\ HasCell("info", MatchIndex) =>
             outcome.kind = "err" /\ outcome.err \in DecodingErrors
       /\ (/\ StringCell("info", MatchIndex)
           /\ AccountsWellFormed(MatchIndex)
           /\ tx_hash \in {H1, H2}) =>
             outcome = QErr("ConversionError")

C8_Witness ==
    /\ fpc = "done" /\ Resolved /\ Occurs
    /\ StringCell("code", MatchIndex)
    /\ Cell("code", MatchIndex).s = <<"2", "5", "6">>
    /\ ValidU64(Cell("height", MatchIndex).s)
    /\ ValidU64(Cell("gas_used", MatchIndex).s)
    /\ outcome = QErr("ConversionError")

\* C9: with the rest of the matched row well formed, a missing
\* initialized_accounts field or one with no element at the matched index i
\* gives an empty account list and the call succeeds; an element at index i
\* holding the text of a JSON array of addresses gives those addresses in
\* order.
C9_InitializedAccounts ==
    (/\ fpc = "done"
     /\ Resolved
     /\ Occurs
     /\ RequiredWellFormed(MatchIndex))
    => /\ ~HasCell("initialized_accounts", MatchIndex) =>
             /\ outcome.kind = "ok"
             /\ outcome.resp.initialized_accounts = <<>>
       /\ \A addrs \in AddressLists :
             (/\ HasCell("initialized_accounts", MatchIndex)
              /\ Cell("initialized_accounts", MatchIndex)
                    = JString(EncodeAccounts(addrs)))
             => /\ outcome.kind = "ok"
                /\ outcome.resp.initialized_accounts = addrs

C9_Witness ==
    /\ fpc = "done" /\ Resolved /\ Occurs
    /\ MatchIndex = 1
    /\ HasCell("initialized_accounts", 1)
    /\ outcome.kind = "ok"
    /\ outcome.resp.initialized_accounts = <<"addr2", "addr1">>

\* C10: when the hash matches at index i but the info, height, code or
\* gas_used array is absent or has no element at index i, find_tx returns
\* the JSON-path error to the caller; it does not abort.
C10_MissingRequiredField ==
    (/\ fpc = "done"
     /\ Resolved
     /\ Occurs
     /\ \E f \in {"info", "height", "code", "gas_used"} : ~HasCell(f, MatchIndex))
    => outcome = QErr("JsonError")

====
